---- MODULE Spec2Model ----
(***************************************************************************)
(* a2ltool: the INSTANCE address update (src/src/update/instance.rs) and   *)
(* the operation pipeline of core() (src/src/main.rs).                     *)
(*                                                                         *)
(* Spec      update_module_instances, one loop iteration per step.         *)
(* SpecCore  core(), one pipeline stage per step.                          *)
(***************************************************************************)
EXTENDS Integers, Sequences, FiniteSets, TLC

\* ------------------------------------------------------------------ bounds
\* longest INSTANCE list handed to update_module_instances
MaxInstances == 3
\* most --merge / --merge-project values on one command line
MaxMerge == 2

\* ------------------------------------------------------------ basic values
\* Option<T>
None == [some |-> FALSE]
Some(v) == [some |-> TRUE, val |-> v]

\* u64 values are kept as two 32 bit words, hi and lo
U64(h, l) == [hi |-> h, lo |-> l]

\* `x as u32` of a u64: the low word
AsU32(a) == a.lo

\* `d as u16` of an array extent
AsU16(d) == d % 65536

\* names of the INSTANCEs of one module, unique within the module
NamePool == <<"A", "B", "C", "D", "E">>

\* names of TYPEDEF_* a type_ref may use
TypeRefs == {"TD1", "TD2"}

\* the four kinds of object an INSTANCE can stand in for
Domains == {"axis_pts", "blob", "characteristic", "measurement"}

\* a name that references use and that no INSTANCE carries
OtherName == "Z"

\* ------------------------------------------------ debug data (crate::dwarf)
\* DebugData.types: type nodes by handle.  size is the byte size of a base
\* type or struct and the pt_size of a pointer; target is the handle of the
\* pointee or of the array element.
BaseType(sz) == [datatype |-> "Base", size |-> sz, dim |-> <<>>, target |-> 0]
StructType(sz) == [datatype |-> "Struct", size |-> sz, dim |-> <<>>, target |-> 0]
PointerType(sz, t) == [datatype |-> "Pointer", size |-> sz, dim |-> <<>>, target |-> t]
ArrayType(d, t) == [datatype |-> "Array", size |-> 0, dim |-> d, target |-> t]

TypeGraph ==
    <<  BaseType(4),                \*  1 scalar
        ArrayType(<<3>>, 1),        \*  2 array
        ArrayType(<<2, 65539>>, 1), \*  3 array with an extent above 16 bits
        PointerType(1, 1),          \*  4 pointers of size 1, 2, 4, 8
        PointerType(2, 1),          \*  5
        PointerType(4, 1),          \*  6
        PointerType(8, 1),          \*  7
        PointerType(3, 1),          \*  8 pointer of an unsupported size
        PointerType(4, 2),          \*  9 pointer to array
        PointerType(8, 6),          \* 10 pointer to pointer
        ArrayType(<<4>>, 6),        \* 11 array of pointers
        PointerType(2, 11),         \* 12 pointer to array of pointers
        StructType(12) >>           \* 13 struct

TypeHandles == DOMAIN TypeGraph

\* TypeInfo::get_pointer(&types): pt_size and pointee of a pointer type
get_pointer(typeinfo, types) ==
    IF types[typeinfo].datatype = "Pointer"
    THEN Some([pt_size |-> types[typeinfo].size, basetype |-> types[typeinfo].target])
    ELSE None

\* TypeInfo::get_arraytype(): element type of an array type
get_arraytype(typeinfo, types) ==
    IF types[typeinfo].datatype = "Array"
    THEN Some(types[typeinfo].target)
    ELSE None

\* get_symbol_info: the lookup key is the SYMBOL_LINK when there is one,
\* else the name of the object
get_symbol_info(name, symbol_link, if_data, dd) ==
    LET key == IF symbol_link.some THEN symbol_link.val ELSE name
    IN  IF key \in DOMAIN dd.variables
        THEN [ok |-> TRUE,
              sym_info |-> [name |-> key,
                            address |-> dd.variables[key].address,
                            typeinfo |-> dd.variables[key].typeinfo]]
        ELSE [ok |-> FALSE, errmsgs |-> <<[msg |-> "symbol not found", symbol |-> key]>>]

\* set_symbol_link: make sure a SYMBOL_LINK naming the symbol exists
set_symbol_link(symbol_link, symname) == Some(symname)

\* update_ifdata: every embedded address follows the address of the symbol
update_ifdata(if_data, symname, typeinfo, address) ==
    [i \in DOMAIN if_data |-> address]

\* zero_if_data: every embedded address becomes zero
zero_if_data(if_data) == [i \in DOMAIN if_data |-> U64(0, 0)]

\* log_update_errors: each message, with the kind of object and its line
log_update_errors(log, errmsgs, blocktype, line) ==
    log \o [i \in DOMAIN errmsgs |->
              [blocktype |-> blocktype, line |-> line, error |-> errmsgs[i]]]

\* cleanup_removed_<kind>: drop the references of one domain to removed names
cleanup_removed_axis_pts(refs, removed) ==
    [refs EXCEPT !["axis_pts"] = @ \ removed]
cleanup_removed_blobs(refs, removed) ==
    [refs EXCEPT !["blob"] = @ \ removed]
cleanup_removed_characteristics(refs, removed) ==
    [refs EXCEPT !["characteristic"] = @ \ removed]
cleanup_removed_measurements(refs, removed) ==
    [refs EXCEPT !["measurement"] = @ \ removed]

\* --------------------------------------------------------------- variables
VARIABLES
    module_instance,      \* module.instance
    module_refs,          \* per domain, the names its groups and functions reference
    debug_data,           \* [variables, types]
    preserve_unknown,
    nameset,              \* names of the known TYPEDEF_*
    instance_list,        \* the list taken out of the module
    idx,                  \* position in instance_list of the next instance
    removed_items,
    instance_updated,
    instance_not_updated,
    typedef_types,        \* type_ref -> sequence of (type, referrer)
    log_msgs,
    cleanup_calls,        \* the arguments of each cleanup_removed_instances call
    pc,
    \* core()
    argv,                 \* the command line: flags, merge files
    arg_matches,
    elf_info,
    trace,                \* the operations core() has run, in order
    merge_idx,
    result,
    cpc

instvars == <<module_instance, module_refs, debug_data, preserve_unknown, nameset,
              instance_list, idx, removed_items, instance_updated,
              instance_not_updated, typedef_types, log_msgs, cleanup_calls, pc>>
corevars == <<argv, arg_matches, elf_info, trace, merge_idx, result, cpc>>
vars == <<instvars, corevars>>

\* ------------------------------------------------- update_instance_address
\* new_address_type without the reset of line 113: a non-pointer keeps the
\* ADDRESS_TYPE the instance had
new_address_type_kept(instance, ptr) ==
    IF ptr.some
    THEN CASE ptr.val.pt_size = 1 -> Some("Pbyte")
           [] ptr.val.pt_size = 2 -> Some("Pword")
           [] ptr.val.pt_size = 4 -> Some("Plong")
           [] ptr.val.pt_size = 8 -> Some("Plonglong")
           [] OTHER -> None
    ELSE instance.address_type

\* lines 98-115: ADDRESS_TYPE from the pointer size, none for a non-pointer
new_address_type(instance, ptr) ==
    IF ptr.some
    THEN CASE ptr.val.pt_size = 1 -> Some("Pbyte")
           [] ptr.val.pt_size = 2 -> Some("Pword")
           [] ptr.val.pt_size = 4 -> Some("Plong")
           [] ptr.val.pt_size = 8 -> Some("Plonglong")
           [] OTHER -> None
    ELSE None

\* lines 117-130: MATRIX_DIM from the extents of an array, none otherwise
new_matrix_dim(instance, typeinfo, types) ==
    IF types[typeinfo].datatype = "Array"
    THEN Some([i \in DOMAIN types[typeinfo].dim |-> AsU16(types[typeinfo].dim[i])])
    ELSE None

\* line 96
new_start_address(sym_info) == AsU32(sym_info.address)

update_instance_address(instance, dd) ==
    LET res == get_symbol_info(instance.name, instance.symbol_link, instance.if_data, dd)
    IN  IF ~res.ok
        THEN [ok |-> FALSE, errmsgs |-> res.errmsgs, instance |-> instance]
        ELSE
            LET sym_info == res.sym_info
                ptr == get_pointer(sym_info.typeinfo, dd.types)
                typeinfo1 == IF ptr.some THEN ptr.val.basetype ELSE sym_info.typeinfo
                isarray == dd.types[typeinfo1].datatype = "Array"
                arraytype == dd.types[typeinfo1].target
                if_data1 == IF isarray
                            THEN update_ifdata(instance.if_data, sym_info.name,
                                               arraytype, sym_info.address)
                            ELSE instance.if_data
                typeinfo2 == IF isarray THEN arraytype ELSE typeinfo1
            IN  [ok |-> TRUE,
                 typedef_ref |-> instance.type_ref,
                 typeinfo |-> sym_info.typeinfo,
                 instance |->
                    [instance EXCEPT
                        !.symbol_link = set_symbol_link(@, sym_info.name),
                        !.start_address = new_start_address(sym_info),
                        !.address_type = new_address_type(instance, ptr),
                        !.matrix_dim = new_matrix_dim(instance, typeinfo1, dd.types),
                        !.if_data = update_ifdata(if_data1, sym_info.name,
                                                  typeinfo2, sym_info.address)]]

\* ------------------------------------------------- update_module_instances
\* lines 38-41: unwrap one pointer, then one array
ledger_basetype(typeinfo, types) ==
    LET ptr == get_pointer(typeinfo, types)
        b1 == IF ptr.some THEN ptr.val.basetype ELSE typeinfo
        arr == get_arraytype(b1, types)
    IN  IF arr.some THEN arr.val ELSE b1

\* LedgerPosition taking the position in the input list
LedgerPosition_of_input(instances, inputpos) == inputpos

\* lines 45, 67: TypedefReferrer::Instance(module.instance.len())
LedgerPosition(instances, inputpos) == Len(instances)

\* typedef_types.entry(key).or_default().push(item)
LedgerPush(ledger, key, item) ==
    IF key \in DOMAIN ledger
    THEN [ledger EXCEPT ![key] = Append(@, item)]
    ELSE [k \in DOMAIN ledger \cup {key} |->
            IF k = key THEN <<item>> ELSE ledger[k]]

\* the instance the loop is at, and what update_instance_address makes of it
Current == instance_list[idx]
Updated == update_instance_address(Current, debug_data)

InLoop == pc = "loop" /\ idx <= Len(instance_list)

\* Start with the list copied out of the module instead of swapped out
Start_copying ==
    /\ pc = "start"
    /\ instance_list' = module_instance
    /\ module_instance' = module_instance
    /\ removed_items' = {}
    /\ instance_updated' = 0
    /\ instance_not_updated' = 0
    /\ typedef_types' = [k \in {} |-> <<>>]
    /\ idx' = 1
    /\ pc' = "loop"
    /\ UNCHANGED <<module_refs, debug_data, preserve_unknown, nameset, log_msgs,
                   cleanup_calls, corevars>>

\* lines 19-24
Start ==
    /\ pc = "start"
    /\ instance_list' = module_instance
    /\ module_instance' = <<>>
    /\ removed_items' = {}
    /\ instance_updated' = 0
    /\ instance_not_updated' = 0
    /\ typedef_types' = [k \in {} |-> <<>>]
    /\ idx' = 1
    /\ pc' = "loop"
    /\ UNCHANGED <<module_refs, debug_data, preserve_unknown, nameset, log_msgs,
                   cleanup_calls, corevars>>

\* lines 27-49: the symbol resolves and type_ref names a known TYPEDEF_*
ResolvedKnown ==
    /\ InLoop
    /\ Updated.ok
    /\ Updated.typedef_ref \in nameset
    /\ typedef_types' = LedgerPush(typedef_types, Updated.typedef_ref,
            [type |-> Some(ledger_basetype(Updated.typeinfo, debug_data.types)),
             referrer |-> [kind |-> "Instance",
                           pos |-> LedgerPosition(module_instance, idx - 1)]])
    /\ module_instance' = Append(module_instance, Updated.instance)
    /\ instance_updated' = instance_updated + 1
    /\ idx' = idx + 1
    /\ UNCHANGED <<module_refs, debug_data, preserve_unknown, nameset, instance_list,
                   removed_items, instance_not_updated, log_msgs, cleanup_calls, pc,
                   corevars>>

\* lines 50-52: the symbol resolves, type_ref is unknown, preserve_unknown
ResolvedUnknownPreserved ==
    /\ InLoop
    /\ Updated.ok
    /\ Updated.typedef_ref \notin nameset
    /\ preserve_unknown
    /\ module_instance' = Append(module_instance, Updated.instance)
    /\ instance_updated' = instance_updated + 1
    /\ idx' = idx + 1
    /\ UNCHANGED <<module_refs, debug_data, preserve_unknown, nameset, instance_list,
                   removed_items, instance_not_updated, typedef_types, log_msgs,
                   cleanup_calls, pc, corevars>>

\* lines 53-56: the symbol resolves, type_ref is unknown, no preserve_unknown
ResolvedUnknownDropped ==
    /\ InLoop
    /\ Updated.ok
    /\ Updated.typedef_ref \notin nameset
    /\ ~preserve_unknown
    /\ log_msgs' = Append(log_msgs,
            [blocktype |-> "INSTANCE", line |-> Updated.instance.line,
             error |-> [msg |-> "type ref does not refer to any TYPEDEF_*",
                        symbol |-> Updated.instance.type_ref]])
    /\ instance_not_updated' = instance_not_updated + 1
    /\ idx' = idx + 1
    /\ UNCHANGED <<module_instance, module_refs, debug_data, preserve_unknown, nameset,
                   instance_list, removed_items, instance_updated, typedef_types,
                   cleanup_calls, pc, corevars>>

\* lines 58-68, 73: the symbol does not resolve, preserve_unknown
NotFoundPreserved ==
    /\ InLoop
    /\ ~Updated.ok
    /\ preserve_unknown
    /\ log_msgs' = log_update_errors(log_msgs, Updated.errmsgs, "INSTANCE",
                                     Updated.instance.line)
    /\ typedef_types' = LedgerPush(typedef_types, Updated.instance.type_ref,
            [type |-> None,
             referrer |-> [kind |-> "Instance",
                           pos |-> LedgerPosition(module_instance, idx - 1)]])
    /\ module_instance' = Append(module_instance,
            [Updated.instance EXCEPT !.start_address = 0,
                                     !.if_data = zero_if_data(@)])
    /\ instance_not_updated' = instance_not_updated + 1
    /\ idx' = idx + 1
    /\ UNCHANGED <<module_refs, debug_data, preserve_unknown, nameset, instance_list,
                   removed_items, instance_updated, cleanup_calls, pc, corevars>>

\* lines 58-59, 69-73: the symbol does not resolve, no preserve_unknown
NotFoundDropped ==
    /\ InLoop
    /\ ~Updated.ok
    /\ ~preserve_unknown
    /\ log_msgs' = log_update_errors(log_msgs, Updated.errmsgs, "INSTANCE",
                                     Updated.instance.line)
    /\ removed_items' = removed_items \cup {Updated.instance.name}
    /\ instance_not_updated' = instance_not_updated + 1
    /\ idx' = idx + 1
    /\ UNCHANGED <<module_instance, module_refs, debug_data, preserve_unknown, nameset,
                   instance_list, instance_updated, typedef_types, cleanup_calls, pc,
                   corevars>>

\* lines 77, 146-152: after the loop
cleanup_removed_instances ==
    /\ pc = "loop"
    /\ idx > Len(instance_list)
    /\ module_refs' =
         cleanup_removed_measurements(
           cleanup_removed_characteristics(
             cleanup_removed_blobs(
               cleanup_removed_axis_pts(module_refs, removed_items),
               removed_items),
             removed_items),
           removed_items)
    /\ cleanup_calls' = Append(cleanup_calls, removed_items)
    /\ pc' = "done"
    /\ UNCHANGED <<module_instance, debug_data, preserve_unknown, nameset, instance_list,
                   idx, removed_items, instance_updated, instance_not_updated,
                   typedef_types, log_msgs, corevars>>

\* ------------------------------------------------------------------ inputs
SymbolAt(addr, t) == [address |-> addr, typeinfo |-> t]

\* an INSTANCE as the parser hands it over
Instance(pos, nm, link, tref, addrtype, mdim, ifd) ==
    [line |-> 10 + pos, name |-> nm, symbol_link |-> link, type_ref |-> tref,
     start_address |-> 48879, address_type |-> addrtype, matrix_dim |-> mdim,
     if_data |-> ifd]

\* lists of up to MaxInstances instances: per instance, its symbol (or none)
\* and its type_ref
ListSymbols == {None, Some(SymbolAt(U64(0, 4096), 1)), Some(SymbolAt(U64(0, 8192), 9))}

ListInputs ==
    UNION {[1..n -> ListSymbols \X TypeRefs] : n \in 0..MaxInstances}

ListInstances(choice) ==
    [i \in DOMAIN choice |->
        Instance(i, NamePool[i], None, choice[i][2], None, None, <<U64(0, 256)>>)]

IndexOf(nm) == CHOOSE i \in DOMAIN NamePool : NamePool[i] = nm

ListVariables(choice) ==
    [nm \in {NamePool[i] : i \in {j \in DOMAIN choice : choice[j][1].some}} |->
        choice[IndexOf(nm)][1].val]

\* one instance, over every type shape and over addresses above 32 bits; it
\* is named after its symbol, or carries a SYMBOL_LINK to it
SingleSymbols ==
    {None} \cup {Some(SymbolAt(a, t)) :
                    a \in {U64(0, 4096), U64(1, 4096), U64(1, 0)}, t \in TypeHandles}

SingleInstances ==
    {Instance(1, nl[1], nl[2], tref, at, md, <<U64(0, 256), U64(0, 512)>>) :
        nl \in {<<"A", None>>, <<"B", Some("A")>>},
        tref \in TypeRefs,
        at \in {None, Some("Pbyte"), Some("Plonglong")},
        md \in {None, Some(<<7>>)}}

SingleVariables(sym) ==
    [nm \in (IF sym.some THEN {"A"} ELSE {}) |-> sym.val]

InitCoreIdle ==
    /\ argv = [flags |-> {}, merge |-> 0, mergeproject |-> 0]
    /\ arg_matches = None
    /\ elf_info = None
    /\ trace = <<>>
    /\ merge_idx = 0
    /\ result = "none"
    /\ cpc = "idle"

Init ==
    /\ InitCoreIdle
    /\ preserve_unknown \in BOOLEAN
    /\ nameset \in SUBSET TypeRefs
    /\ \/ \E choice \in ListInputs :
            /\ module_instance = ListInstances(choice)
            /\ debug_data = [variables |-> ListVariables(choice), types |-> TypeGraph]
       \/ \E sym \in SingleSymbols, inst \in SingleInstances :
            /\ module_instance = <<inst>>
            /\ debug_data = [variables |-> SingleVariables(sym), types |-> TypeGraph]
    /\ module_refs = [d \in Domains |->
                        {NamePool[i] : i \in 1..MaxInstances} \cup {OtherName}]
    /\ instance_list = <<>>
    /\ idx = 1
    /\ removed_items = {}
    /\ instance_updated = 0
    /\ instance_not_updated = 0
    /\ typedef_types = [k \in {} |-> <<>>]
    /\ log_msgs = <<>>
    /\ cleanup_calls = <<>>
    /\ pc = "start"

Next ==
    \/ Start
    \/ ResolvedKnown
    \/ ResolvedUnknownPreserved
    \/ ResolvedUnknownDropped
    \/ NotFoundPreserved
    \/ NotFoundDropped
    \/ cleanup_removed_instances

Spec == Init /\ [][Next]_vars

\* ============================================ update_module_instances: claims
Started == pc \in {"loop", "done"}

\* positions of the input list the loop has dealt with
ProcessedPositions == IF Started THEN 1..(idx - 1) ELSE {}

InputAt(k) == instance_list[k]
InputOfLine(line) == CHOOSE k \in DOMAIN instance_list : instance_list[k].line = line

SymbolKey(inst) == IF inst.symbol_link.some THEN inst.symbol_link.val ELSE inst.name
SymbolFound(inst) == SymbolKey(inst) \in DOMAIN debug_data.variables
SymbolOf(inst) == debug_data.variables[SymbolKey(inst)]
KnownTemplate(inst) == inst.type_ref \in nameset

\* an instance fails resolution: no symbol, or a type_ref that is no template
FailsResolution(inst) == ~SymbolFound(inst) \/ ~KnownTemplate(inst)
BadTypeRef(inst) == SymbolFound(inst) /\ ~KnownTemplate(inst)

SurvivorPositions(k) ==
    {j \in DOMAIN module_instance : module_instance[j].line = InputAt(k).line}
Survives(k) == SurvivorPositions(k) # {}
SurvivorOf(k) == module_instance[CHOOSE j \in SurvivorPositions(k) : TRUE]

\* the ledger as a set of (key, entry) pairs, one per place in a sequence
LedgerPlaces ==
    UNION {{<<key, n>> : n \in DOMAIN typedef_types[key]} : key \in DOMAIN typedef_types}
EntryAt(place) == typedef_types[place[1]][place[2]]
PlacesOfPosition(p) == {pl \in LedgerPlaces : EntryAt(pl).referrer.pos = p}

InitialRefs == {NamePool[i] : i \in 1..MaxInstances} \cup {OtherName}

\* C1: after update_module_instances every input instance that is not in
\* module.instance has no ledger entry and has its name in the removal-name
\* set handed to cleanup_removed_instances, whether it was dropped for a
\* missing symbol or for a type_ref that is no known template.
C1_DroppedAreRemovedNames ==
    pc = "done" =>
        /\ Len(cleanup_calls) = 1
        /\ \A pl \in LedgerPlaces : EntryAt(pl).referrer.pos < Len(module_instance)
        /\ \A k \in DOMAIN instance_list :
              ~Survives(k) => InputAt(k).name \in cleanup_calls[1]

\* C2: an instance whose symbol resolves and whose type_ref is no known
\* template counts as not updated, never as updated, under both values of
\* preserve_unknown, and the log gets a diagnostic naming the type_ref.
C2_BadTypeRefIsAFailure ==
    /\ instance_updated =
          Cardinality({k \in ProcessedPositions : ~FailsResolution(InputAt(k))})
    /\ instance_not_updated =
          Cardinality({k \in ProcessedPositions : FailsResolution(InputAt(k))})
    /\ \A k \in ProcessedPositions :
          BadTypeRef(InputAt(k)) =>
            \E i \in DOMAIN log_msgs :
                /\ log_msgs[i].blocktype = "INSTANCE"
                /\ log_msgs[i].line = InputAt(k).line
                /\ log_msgs[i].error.msg = "type ref does not refer to any TYPEDEF_*"
                /\ log_msgs[i].error.symbol = InputAt(k).type_ref

\* C3: with preserve_unknown every instance that fails resolution (no symbol,
\* or a type_ref that is no known template) stays in module.instance with
\* start_address 0 and zeroed IF_DATA addresses and has a ledger entry
\* without type under its type_ref; nothing is dropped, nothing is removed.
C3_PreservedFailuresAreZeroed ==
    (Started /\ preserve_unknown) =>
        /\ removed_items = {}
        /\ Len(module_instance) = idx - 1
        /\ \A k \in ProcessedPositions :
              FailsResolution(InputAt(k)) =>
                /\ Survives(k)
                /\ SurvivorOf(k).start_address = 0
                /\ \A i \in DOMAIN SurvivorOf(k).if_data :
                      SurvivorOf(k).if_data[i] = U64(0, 0)
                /\ \E pl \in LedgerPlaces :
                      /\ pl[1] = InputAt(k).type_ref
                      /\ EntryAt(pl).type = None
                      /\ EntryAt(pl).referrer.pos + 1 \in SurvivorPositions(k)

\* the type a ledger entry carries: one pointer unwrapped, then one array
LeafType(h) ==
    LET a == IF TypeGraph[h].datatype = "Pointer" THEN TypeGraph[h].target ELSE h
    IN  IF TypeGraph[a].datatype = "Array" THEN TypeGraph[a].target ELSE a

\* whether the instance at a position of module.instance has a ledger entry,
\* and with which type
HasEntry(inst) == ~SymbolFound(inst) \/ KnownTemplate(inst)
EntryType(inst) ==
    IF SymbolFound(inst) THEN Some(LeafType(SymbolOf(inst).typeinfo)) ELSE None

\* C4: every ledger entry (type, Instance(i)) is the entry of the instance
\* at index i of module.instance: it is keyed by that instance's type_ref,
\* carries that instance's type, and is the only entry with that index; an
\* instance kept without entry has none.
C4_LedgerPositionIsFinalPosition ==
    Started =>
        /\ \A pl \in LedgerPlaces :
              LET e == EntryAt(pl)
                  j == e.referrer.pos + 1
              IN  /\ e.referrer.kind = "Instance"
                  /\ j \in DOMAIN module_instance
                  /\ module_instance[j].type_ref = pl[1]
                  /\ HasEntry(InputAt(InputOfLine(module_instance[j].line)))
                  /\ e.type = EntryType(InputAt(InputOfLine(module_instance[j].line)))
        /\ \A j \in DOMAIN module_instance :
              Cardinality(PlacesOfPosition(j - 1)) =
                IF HasEntry(InputAt(InputOfLine(module_instance[j].line))) THEN 1 ELSE 0

\* C4: input [A, B, C], B dropped, A with entry 0 and C with entry 1
C4_Witness ==
    /\ pc = "done"
    /\ Len(instance_list) = 3
    /\ Survives(1) /\ ~Survives(2) /\ Survives(3)
    /\ PlacesOfPosition(0) # {}
    /\ PlacesOfPosition(1) # {}
    /\ PlacesOfPosition(2) = {}

\* C10: module.instance is at every moment of the update a subsequence of
\* the input list, in input order, without duplicates and without new
\* objects, built from the instances the loop has dealt with only.
C10_SurvivorsKeepInputOrder ==
    /\ pc = "start" => instance_list = <<>>
    /\ Started =>
          /\ \A j \in DOMAIN module_instance :
                \E k \in ProcessedPositions :
                    /\ InputAt(k).line = module_instance[j].line
                    /\ InputAt(k).name = module_instance[j].name
                    /\ InputAt(k).type_ref = module_instance[j].type_ref
          /\ \A i, j \in DOMAIN module_instance :
                i < j => InputOfLine(module_instance[i].line)
                            < InputOfLine(module_instance[j].line)

\* C10: a list of three whose first instance is dropped, the others kept
C10_Witness ==
    /\ pc = "done"
    /\ Len(instance_list) = 3
    /\ ~Survives(1)
    /\ Len(module_instance) = 2
    /\ module_instance[1].name = "B"
    /\ module_instance[2].name = "C"

\* C7: cleanup_removed_instances runs once, with the complete removal-name
\* set, and afterwards no domain references the name of a dropped instance,
\* while references to other names are as they were.
C7_NoReferenceToDropped ==
    pc = "done" =>
        /\ Len(cleanup_calls) = 1
        /\ cleanup_calls[1] = removed_items
        /\ \A d \in Domains :
              /\ \A k \in DOMAIN instance_list :
                    ~Survives(k) => InputAt(k).name \notin module_refs[d]
              /\ \A nm \in InitialRefs :
                    (\A k \in DOMAIN instance_list : Survives(k) \/ InputAt(k).name # nm)
                        => nm \in module_refs[d]

\* ------------------------------------------- update_instance_address: claims
IsPointer(h) == TypeGraph[h].datatype = "Pointer"
IsArray(h) == TypeGraph[h].datatype = "Array"
Pointee(h) == TypeGraph[h].target

Shape(h) ==
    CASE IsPointer(h) /\ IsPointer(Pointee(h)) -> "pointer to pointer"
      [] IsPointer(h) /\ IsArray(Pointee(h)) /\ IsPointer(Pointee(Pointee(h)))
            -> "pointer to array of pointer"
      [] IsPointer(h) /\ IsArray(Pointee(h)) -> "pointer to array"
      [] IsPointer(h) -> "pointer"
      [] IsArray(h) /\ IsPointer(Pointee(h)) -> "array of pointer"
      [] IsArray(h) -> "array"
      [] OTHER -> "scalar"

TagOfSize(sz) ==
    CASE sz = 1 -> Some("Pbyte")
      [] sz = 2 -> Some("Pword")
      [] sz = 4 -> Some("Plong")
      [] sz = 8 -> Some("Plonglong")
      [] OTHER -> None

Narrowed(dims) == [i \in DOMAIN dims |-> dims[i] % 65536]

\* the table of section 4.2 as the claim states it
PolicyTable(h) ==
    CASE Shape(h) = "scalar" -> <<None, None>>
      [] Shape(h) = "pointer" -> <<TagOfSize(TypeGraph[h].size), None>>
      [] Shape(h) = "array" -> <<None, Some(TypeGraph[h].dim)>>
      [] Shape(h) = "pointer to array" ->
            <<TagOfSize(TypeGraph[h].size), Some(TypeGraph[Pointee(h)].dim)>>
      [] OTHER -> <<None, None>>

\* the table with the outer pointer and the outer array always honoured,
\* and the extents narrowed to the 16 bits of MATRIX_DIM
PolicyTableOuter(h) ==
    CASE Shape(h) = "scalar" -> <<None, None>>
      [] Shape(h) \in {"pointer", "pointer to pointer"} ->
            <<TagOfSize(TypeGraph[h].size), None>>
      [] Shape(h) \in {"array", "array of pointer"} ->
            <<None, Some(Narrowed(TypeGraph[h].dim))>>
      [] Shape(h) \in {"pointer to array", "pointer to array of pointer"} ->
            <<TagOfSize(TypeGraph[h].size), Some(Narrowed(TypeGraph[Pointee(h)].dim))>>

\* the kept instances update_instance_address succeeded on
UpdatedPositions ==
    {j \in DOMAIN module_instance :
        Started /\ SymbolFound(InputAt(InputOfLine(module_instance[j].line)))}
SymbolAtPosition(j) == SymbolOf(InputAt(InputOfLine(module_instance[j].line)))

\* C5 as stated: address_type and matrix_dim of a resolved instance follow
\* the table of section 4.2, pointer to pointer and array of pointer getting
\* neither, whatever the instance carried before.
C5_PolicyTableAsStated ==
    \A j \in UpdatedPositions :
        /\ module_instance[j].address_type = PolicyTable(SymbolAtPosition(j).typeinfo)[1]
        /\ module_instance[j].matrix_dim = PolicyTable(SymbolAtPosition(j).typeinfo)[2]

\* C5 amended: address_type follows the size of the outermost pointer (also
\* of a pointer to pointer), matrix_dim the extents, narrowed to 16 bits, of
\* the array left after unwrapping one pointer (also of an array of
\* pointers), whatever the instance carried before.
C5_PolicyOfOuterPointerAndArray ==
    \A j \in UpdatedPositions :
        /\ module_instance[j].address_type =
                PolicyTableOuter(SymbolAtPosition(j).typeinfo)[1]
        /\ module_instance[j].matrix_dim =
                PolicyTableOuter(SymbolAtPosition(j).typeinfo)[2]

\* C5: a pointer to pointer, on an instance that carried another tag and a
\* MATRIX_DIM before
C5_Witness ==
    \E j \in UpdatedPositions :
        /\ Shape(SymbolAtPosition(j).typeinfo) = "pointer to pointer"
        /\ InputAt(InputOfLine(module_instance[j].line)).address_type = Some("Pbyte")
        /\ InputAt(InputOfLine(module_instance[j].line)).matrix_dim = Some(<<7>>)
        /\ module_instance[j].address_type = Some("Plonglong")
        /\ module_instance[j].matrix_dim = None

\* a u32 widened to u64, to compare it with a symbol address
FromU32(x) == U64(0, x)

\* C6: the start_address of a resolved instance equals the address of its
\* symbol in the symbol table, for every 64 bit address.
C6_AddressIsSymbolAddress ==
    \A j \in UpdatedPositions :
        FromU32(module_instance[j].start_address) = SymbolAtPosition(j).address


\* ------------------------------------------------------------------ core()
Flags == {"INPUT", "ELFFILE", "CHECK", "MERGEINCLUDES", "UPDATE", "SAFE_UPDATE",
          "OUTPUT", "SORT", "IFDATA_CLEANUP", "SHOW_XCP"}

\* ClapAccepts without the two requires("ELFFILE")
ClapAccepts_without_requires(cmd) ==
    /\ "INPUT" \in cmd.flags
    /\ ~("UPDATE" \in cmd.flags /\ "SAFE_UPDATE" \in cmd.flags)

\* get_args: what clap accepts.  INPUT is required, UPDATE and SAFE_UPDATE
\* each require ELFFILE, and the group UPDATE_GROUP admits one of its members
ClapAccepts(cmd) ==
    /\ "INPUT" \in cmd.flags
    /\ ("UPDATE" \in cmd.flags => "ELFFILE" \in cmd.flags)
    /\ ("SAFE_UPDATE" \in cmd.flags => "ELFFILE" \in cmd.flags)
    /\ ~("UPDATE" \in cmd.flags /\ "SAFE_UPDATE" \in cmd.flags)

\* the stages of core(), in the order of its text
Stages == <<"load_input", "show_xcp", "check", "load_elf", "merge_module",
            "merge_project", "merge_includes", "update", "ifdata_cleanup", "sort",
            "output", "complete">>

\* StageAfter with the sort ahead of the IF_DATA cleanup
StageAfter_sort_first(stage) ==
    LET swapped == <<"load_input", "show_xcp", "check", "load_elf", "merge_module",
                     "merge_project", "merge_includes", "update", "sort",
                     "ifdata_cleanup", "output", "complete">>
        i == CHOOSE k \in DOMAIN swapped : swapped[k] = stage
    IN  IF i < Len(swapped) THEN swapped[i + 1] ELSE "done"

StageAfter(stage) ==
    LET i == CHOOSE k \in DOMAIN Stages : Stages[k] = stage
    IN  IF i < Len(Stages) THEN Stages[i + 1] ELSE "done"

is_present(flag) == flag \in arg_matches.val.flags

\* `?` on an Err: core() returns the error
ReturnErr ==
    /\ result' = "err"
    /\ cpc' = "done"

Advance == cpc' = StageAfter(cpc)

\* line 78; clap ends the process on a command line it does not accept
get_args ==
    /\ cpc = "get_args"
    /\ IF ClapAccepts(argv)
       THEN /\ arg_matches' = Some(argv)
            /\ cpc' = Stages[1]
            /\ result' = result
       ELSE /\ arg_matches' = arg_matches
            /\ cpc' = "done"
            /\ result' = "usage"
    /\ UNCHANGED <<argv, elf_info, trace, merge_idx, instvars>>

\* lines 87-100
load_input ==
    /\ cpc = "load_input"
    /\ trace' = Append(trace, "load input")
    /\ \E loaded \in BOOLEAN :
          IF loaded THEN Advance /\ result' = result ELSE ReturnErr
    /\ UNCHANGED <<argv, arg_matches, elf_info, merge_idx, instvars>>

\* lines 102-105
show_xcp ==
    /\ cpc = "show_xcp"
    /\ trace' = IF is_present("SHOW_XCP") THEN Append(trace, "show xcp") ELSE trace
    /\ Advance
    /\ UNCHANGED <<argv, arg_matches, elf_info, merge_idx, result, instvars>>

\* lines 107-120
consistency_check ==
    /\ cpc = "check"
    /\ trace' = IF is_present("CHECK") THEN Append(trace, "consistency check") ELSE trace
    /\ Advance
    /\ UNCHANGED <<argv, arg_matches, elf_info, merge_idx, result, instvars>>

\* lines 122-133
load_elf ==
    /\ cpc = "load_elf"
    /\ IF is_present("ELFFILE")
       THEN /\ trace' = Append(trace, "load elf")
            /\ \E loaded \in BOOLEAN :
                  IF loaded
                  THEN elf_info' = Some("elf_info") /\ Advance /\ result' = result
                  ELSE elf_info' = elf_info /\ ReturnErr
       ELSE /\ trace' = trace
            /\ elf_info' = None
            /\ Advance
            /\ result' = result
    /\ UNCHANGED <<argv, arg_matches, merge_idx, instvars>>

\* lines 135-144, one merge file per step
merge_modules ==
    /\ cpc = "merge_module"
    /\ IF merge_idx < arg_matches.val.merge
       THEN /\ trace' = Append(trace, "merge module")
            /\ \E loaded \in BOOLEAN :
                  IF loaded
                  THEN merge_idx' = merge_idx + 1 /\ cpc' = cpc /\ result' = result
                  ELSE merge_idx' = merge_idx /\ ReturnErr
       ELSE /\ trace' = trace
            /\ merge_idx' = 0
            /\ Advance
            /\ result' = result
    /\ UNCHANGED <<argv, arg_matches, elf_info, instvars>>

\* lines 146-155, one merge file per step
merge_projects ==
    /\ cpc = "merge_project"
    /\ IF merge_idx < arg_matches.val.mergeproject
       THEN /\ trace' = Append(trace, "merge project")
            /\ \E loaded \in BOOLEAN :
                  IF loaded
                  THEN merge_idx' = merge_idx + 1 /\ cpc' = cpc /\ result' = result
                  ELSE merge_idx' = merge_idx /\ ReturnErr
       ELSE /\ trace' = trace
            /\ merge_idx' = 0
            /\ Advance
            /\ result' = result
    /\ UNCHANGED <<argv, arg_matches, elf_info, instvars>>

\* lines 157-161
merge_includes ==
    /\ cpc = "merge_includes"
    /\ trace' = IF is_present("MERGEINCLUDES") THEN Append(trace, "merge includes")
                                                ELSE trace
    /\ Advance
    /\ UNCHANGED <<argv, arg_matches, elf_info, merge_idx, result, instvars>>

\* lines 163-174; elf_info.as_ref().unwrap() panics on None
update_addresses ==
    /\ cpc = "update"
    /\ IF is_present("UPDATE") \/ is_present("SAFE_UPDATE")
       THEN IF elf_info.some
            THEN /\ preserve_unknown' = is_present("SAFE_UPDATE")
                 /\ trace' = Append(trace, "update addresses")
                 /\ Advance
                 /\ result' = result
            ELSE /\ preserve_unknown' = is_present("SAFE_UPDATE")
                 /\ trace' = trace
                 /\ cpc' = "done"
                 /\ result' = "panic"
       ELSE /\ preserve_unknown' = preserve_unknown
            /\ trace' = trace
            /\ Advance
            /\ result' = result
    /\ UNCHANGED <<argv, arg_matches, elf_info, merge_idx, module_instance, module_refs,
                   debug_data, nameset, instance_list, idx, removed_items,
                   instance_updated, instance_not_updated, typedef_types, log_msgs,
                   cleanup_calls, pc>>

\* lines 176-180
ifdata_cleanup ==
    /\ cpc = "ifdata_cleanup"
    /\ trace' = IF is_present("IFDATA_CLEANUP") THEN Append(trace, "ifdata cleanup")
                                                 ELSE trace
    /\ Advance
    /\ UNCHANGED <<argv, arg_matches, elf_info, merge_idx, result, instvars>>

\* lines 182-186
sort ==
    /\ cpc = "sort"
    /\ trace' = IF is_present("SORT") THEN Append(trace, "sort") ELSE trace
    /\ Advance
    /\ UNCHANGED <<argv, arg_matches, elf_info, merge_idx, result, instvars>>

\* lines 188-195
write_output ==
    /\ cpc = "output"
    /\ IF is_present("OUTPUT")
       THEN /\ trace' = Append(trace, "write output")
            /\ \E written \in BOOLEAN :
                  IF written THEN Advance /\ result' = result ELSE ReturnErr
       ELSE /\ trace' = trace
            /\ Advance
            /\ result' = result
    /\ UNCHANGED <<argv, arg_matches, elf_info, merge_idx, instvars>>

\* lines 198-200
run_complete ==
    /\ cpc = "complete"
    /\ result' = "ok"
    /\ Advance
    /\ UNCHANGED <<argv, arg_matches, elf_info, trace, merge_idx, instvars>>

InitInstIdle ==
    /\ module_instance = <<>>
    /\ module_refs = [d \in Domains |-> {}]
    /\ debug_data = [variables |-> [nm \in {} |-> 0], types |-> TypeGraph]
    /\ preserve_unknown = FALSE
    /\ nameset = {}
    /\ instance_list = <<>>
    /\ idx = 1
    /\ removed_items = {}
    /\ instance_updated = 0
    /\ instance_not_updated = 0
    /\ typedef_types = [k \in {} |-> <<>>]
    /\ log_msgs = <<>>
    /\ cleanup_calls = <<>>
    /\ pc = "idle"

InitCore ==
    /\ InitInstIdle
    /\ argv \in [flags : SUBSET Flags, merge : 0..MaxMerge, mergeproject : 0..MaxMerge]
    /\ arg_matches = None
    /\ elf_info = None
    /\ trace = <<>>
    /\ merge_idx = 0
    /\ result = "none"
    /\ cpc = "get_args"

NextCore ==
    \/ get_args
    \/ load_input
    \/ show_xcp
    \/ consistency_check
    \/ load_elf
    \/ merge_modules
    \/ merge_projects
    \/ merge_includes
    \/ update_addresses
    \/ ifdata_cleanup
    \/ sort
    \/ write_output
    \/ run_complete

SpecCore == InitCore /\ [][NextCore]_vars

\* ============================================================ core(): claims
Ran(op) == \E i \in DOMAIN trace : trace[i] = op
TimesRun(op) == Cardinality({i \in DOMAIN trace : trace[i] = op})

\* C8: an update asked for without an elf file is refused before core() does
\* anything; update_addresses never runs, and elf_info is never unwrapped,
\* with elf_info = None; the two update modes exclude each other, so that
\* preserve_unknown says which one was asked for.
C8_UpdateNeedsDebugInfo ==
    /\ result # "panic"
    /\ ( /\ cpc # "get_args"
         /\ "ELFFILE" \notin argv.flags
         /\ ("UPDATE" \in argv.flags \/ "SAFE_UPDATE" \in argv.flags) )
        => (result = "usage" /\ cpc = "done" /\ trace = <<>>)
    /\ (cpc = "update" /\ ("UPDATE" \in argv.flags \/ "SAFE_UPDATE" \in argv.flags))
        => elf_info.some
    /\ Ran("update addresses") =>
          /\ elf_info.some
          /\ ~("UPDATE" \in argv.flags /\ "SAFE_UPDATE" \in argv.flags)
          /\ preserve_unknown = ("SAFE_UPDATE" \in argv.flags)
          /\ preserve_unknown = ("UPDATE" \notin argv.flags)

\* C8: --update without --elffile, refused
C8_Witness ==
    /\ "INPUT" \in argv.flags
    /\ "UPDATE" \in argv.flags
    /\ "SAFE_UPDATE" \notin argv.flags
    /\ "ELFFILE" \notin argv.flags
    /\ result = "usage"
    /\ trace = <<>>

\* the operations in the order the claim gives them
OperationOrder == <<"load input", "consistency check", "load elf", "merge module",
                    "merge project", "merge includes", "update addresses",
                    "ifdata cleanup", "sort", "write output">>
Operations == {OperationOrder[k] : k \in DOMAIN OperationOrder}
RankOf(op) == CHOOSE k \in DOMAIN OperationOrder : OperationOrder[k] = op

\* how often the command line asks for an operation
TimesAsked(op) ==
    CASE op = "load input" -> IF "INPUT" \in argv.flags THEN 1 ELSE 0
      [] op = "consistency check" -> IF "CHECK" \in argv.flags THEN 1 ELSE 0
      [] op = "load elf" -> IF "ELFFILE" \in argv.flags THEN 1 ELSE 0
      [] op = "merge module" -> argv.merge
      [] op = "merge project" -> argv.mergeproject
      [] op = "merge includes" -> IF "MERGEINCLUDES" \in argv.flags THEN 1 ELSE 0
      [] op = "update addresses" ->
            IF "UPDATE" \in argv.flags \/ "SAFE_UPDATE" \in argv.flags THEN 1 ELSE 0
      [] op = "ifdata cleanup" -> IF "IFDATA_CLEANUP" \in argv.flags THEN 1 ELSE 0
      [] op = "sort" -> IF "SORT" \in argv.flags THEN 1 ELSE 0
      [] op = "write output" -> IF "OUTPUT" \in argv.flags THEN 1 ELSE 0

\* C9: the operations of a run execute in the fixed order, each at most once
\* per argument that asks for it; a failed load of the input, of the elf
\* file or of a merge file, and a failed write, end the run at that
\* operation; output is written only when asked for.
C9_FixedOrderOfOperations ==
    /\ \A i, j \in DOMAIN trace :
          (i < j /\ trace[i] \in Operations /\ trace[j] \in Operations)
            => RankOf(trace[i]) <= RankOf(trace[j])
    /\ \A op \in Operations : TimesRun(op) <= TimesAsked(op)
    /\ Ran("write output") => "OUTPUT" \in argv.flags
    /\ result = "err" =>
          /\ cpc = "done"
          /\ trace # <<>>
          /\ trace[Len(trace)] \in {"load input", "load elf", "merge module",
                                     "merge project", "write output"}
    /\ result = "ok" => \A op \in Operations : TimesRun(op) = TimesAsked(op)

\* C9: a run that is asked for everything, with two merges, and succeeds
C9_Witness ==
    /\ result = "ok"
    /\ \A op \in Operations : Ran(op)
    /\ Ran("show xcp")
    /\ TimesRun("merge module") = 2
    /\ TimesRun("merge project") = 1

====
